---- MODULE Spec2Model ----
(***************************************************************************)
(* Model of the yamlvalidator package: a Validator holds the parsed        *)
(* yaml.Node tree of one file and an ErrorCollector; Validate() walks the  *)
(* tree along the fixed Pod schema and appends one ValidationError per     *)
(* violation.  main calls Validate() once and reports the result.          *)
(*                                                                         *)
(* A yaml.Node is a record [Kind, Value, Line, Content].  Strings are TLA+ *)
(* strings; the regular expressions and strconv.Atoi are computed          *)
(* character by character.  A Go run-time panic (index out of range) is    *)
(* the flag `panicked' of the collector threaded through the validators.   *)
(***************************************************************************)
EXTENDS Integers, Sequences, FiniteSets, TLC

VARIABLES RootNode, Errors, returns, pc, calls, output, exitCode

vars == <<RootNode, Errors, returns, pc, calls, output, exitCode>>

-----------------------------------------------------------------------------
(* Bounds of the model *)

MaxCalls == 2

MaxDefects == 2

MaxDocs == 2

MaxSeqLen == 3

-----------------------------------------------------------------------------
(* constants.go *)

APIVersionExpected == "v1"

KindExpected == "Pod"

SupportedOSNames == <<"linux", "windows">>

SupportedProtocols == <<"TCP", "UDP">>

PortNumberMin == 1

PortNumberMax == 65535

FilePath == "pod.yaml"

-----------------------------------------------------------------------------
(* yaml.Node kinds and constructors *)

ScalarNode == "ScalarNode"

MappingNode == "MappingNode"

SequenceNode == "SequenceNode"

AliasNode == "AliasNode"

DocumentNode == "DocumentNode"

ZeroKind == "0"

Node(kind, value, line, content) ==
    [Kind |-> kind, Value |-> value, Line |-> line, Content |-> content]

-----------------------------------------------------------------------------
(* Characters and strings *)

Digits == {"0", "1", "2", "3", "4", "5", "6", "7", "8", "9"}

LowerLetters ==
    {"a", "b", "c", "d", "e", "f", "g", "h", "i", "j", "k", "l", "m",
     "n", "o", "p", "q", "r", "s", "t", "u", "v", "w", "x", "y", "z"}

DigitVal(c) ==
    CASE c = "0" -> 0 [] c = "1" -> 1 [] c = "2" -> 2 [] c = "3" -> 3
      [] c = "4" -> 4 [] c = "5" -> 5 [] c = "6" -> 6 [] c = "7" -> 7
      [] c = "8" -> 8 [] c = "9" -> 9

CharAt(s, i) == SubSeq(s, i, i)

AllIn(s, set) == \A i \in 1..Len(s) : CharAt(s, i) \in set

HasPrefix(s, p) == Len(s) >= Len(p) /\ SubSeq(s, 1, Len(p)) = p

\* ContainsString(value, list): value is one of the elements of list.
ContainsString(value, list) == \E i \in 1..Len(list) : list[i] = value

-----------------------------------------------------------------------------
(* The compiled patterns of constants.go, matched as regexp matches them:  *)
(* `$' is the end of the text and `.' is any character but a newline.      *)

\* `^[a-z]+(_[a-z]+)*$' from position i on; needLetter: a letter must come.
RECURSIVE SnakeFrom(_, _, _)
SnakeFrom(s, i, needLetter) ==
    IF i > Len(s) THEN ~needLetter
    ELSE IF CharAt(s, i) \in LowerLetters THEN SnakeFrom(s, i + 1, FALSE)
    ELSE IF CharAt(s, i) = "_" /\ ~needLetter THEN SnakeFrom(s, i + 1, TRUE)
    ELSE FALSE

RegexSnakeCase(s) == SnakeFrom(s, 1, TRUE)

ImagePrefix == "registry.bigbrother.io/"

\* `^registry\.bigbrother\.io/(.+):(.+)$'
RegexImage(s) ==
    /\ HasPrefix(s, ImagePrefix)
    /\ LET rest == SubSeq(s, Len(ImagePrefix) + 1, Len(s))
       IN /\ \A i \in 1..Len(rest) : CharAt(rest, i) # "\n"
          /\ \E k \in 2..(Len(rest) - 1) : CharAt(rest, k) = ":"

MemoryUnits == {"Mi", "Gi", "Ki"}

\* `^(\d+)(Mi|Gi|Ki)$': the sequence of submatches, <<>> when there is none.
RegexMemory(s) ==
    IF /\ Len(s) >= 3
       /\ SubSeq(s, Len(s) - 1, Len(s)) \in MemoryUnits
       /\ AllIn(SubSeq(s, 1, Len(s) - 2), Digits)
    THEN <<s, SubSeq(s, 1, Len(s) - 2), SubSeq(s, Len(s) - 1, Len(s))>>
    ELSE <<>>

\* `^/.*'
RegexAbsolutePath(s) == HasPrefix(s, "/")

-----------------------------------------------------------------------------
(* strconv.Atoi for a 64-bit int.  The magnitude is compared as a decimal  *)
(* string against the limits of int64, so no overflow is lost.  The value  *)
(* returned is exact up to nine digits and 10^9 (or -10^9) beyond: the     *)
(* program compares it with 1 and 65535 only.                              *)

RECURSIVE StripZeros(_)
StripZeros(s) ==
    IF Len(s) > 1 /\ Head(s) = "0" THEN StripZeros(Tail(s)) ELSE s

RECURSIVE LexLess(_, _)
LexLess(a, b) ==
    IF Len(a) = 0 THEN FALSE
    ELSE IF DigitVal(Head(a)) # DigitVal(Head(b))
         THEN DigitVal(Head(a)) < DigitVal(Head(b))
         ELSE LexLess(Tail(a), Tail(b))

\* a < b for decimal magnitudes without leading zeros
DecLess(a, b) ==
    \/ Len(a) < Len(b)
    \/ Len(a) = Len(b) /\ LexLess(a, b)

RECURSIVE DecVal(_)
DecVal(s) ==
    IF Len(s) = 0 THEN 0
    ELSE DecVal(SubSeq(s, 1, Len(s) - 1)) * 10 + DigitVal(CharAt(s, Len(s)))

MaxInt64 == "9223372036854775807"

MinInt64Magnitude == "9223372036854775808"

Atoi(s) ==
    LET signed == Len(s) > 0 /\ Head(s) \in {"+", "-"}
        neg    == Len(s) > 0 /\ Head(s) = "-"
        body   == IF signed THEN Tail(s) ELSE s
        syntax == Len(body) = 0 \/ ~AllIn(body, Digits)
        mag    == StripZeros(body)
        range  == IF neg THEN DecLess(MinInt64Magnitude, mag)
                         ELSE DecLess(MaxInt64, mag)
        abs    == IF Len(mag) <= 9 THEN DecVal(mag) ELSE 1000000000
    IN  IF syntax THEN [err |-> TRUE, val |-> 0]
        ELSE IF range THEN [err |-> TRUE, val |-> 0]
        ELSE [err |-> FALSE, val |-> IF neg THEN 0 - abs ELSE abs]

-----------------------------------------------------------------------------
(* errorhandler.go *)

ValidationError(line, message) ==
    [FilePath |-> FilePath, Line |-> line, Message |-> message]

\* The collector threaded through the validators: the Errors slice and
\* whether the goroutine has panicked.
NewCollector(errors) == [Errors |-> errors, panicked |-> FALSE]

Add(ec, err) == [ec EXCEPT !.Errors = Append(@, err)]

\* node.Content[i+1] with i+1 = len(node.Content): index out of range
Panic(ec) == [ec EXCEPT !.panicked = TRUE]

DigitChar(d) == SubSeq("0123456789", d + 1, d + 1)

RECURSIVE NatString(_)
NatString(n) ==
    IF n < 10 THEN DigitChar(n)
    ELSE NatString(n \div 10) \o DigitChar(n % 10)

\* the decimal text of an integer (%d, strconv.Itoa)
Itoa(n) == IF n < 0 THEN "-" \o NatString(0 - n) ELSE NatString(n)

\* (*ValidationError).Error(): "%s:%d %s"
ErrorString(e) == e.FilePath \o ":" \o Itoa(e.Line) \o " " \o e.Message

-----------------------------------------------------------------------------
(* The validators.  Each takes the node and the collector and gives the    *)
(* collector after the call.  A loop over node.Content is a RECURSIVE      *)
(* operator on the 1-based index i of the key; it stops at a panic.        *)

\* visitedFields after a loop that ran to its end: every key of the pairs
visitedFields(node) ==
    {node.Content[i].Value : i \in {j \in 1..Len(node.Content) : j % 2 = 1}}

\* checkRequired that leaves out the last of the required fields
RECURSIVE checkRequired_SkipLast(_, _, _, _)
checkRequired_SkipLast(requiredFields, k, node, ec) ==
    IF ec.panicked \/ k >= Len(requiredFields) THEN ec
    ELSE checkRequired_SkipLast(requiredFields, k + 1, node,
            IF requiredFields[k] \notin visitedFields(node)
            THEN Add(ec, ValidationError(node.Line,
                                         requiredFields[k] \o " is required"))
            ELSE ec)

\* for _, field := range requiredFields { if !visitedFields[field] {...} },
\* which a panic in the loop before it never reaches
RECURSIVE checkRequired(_, _, _, _)
checkRequired(requiredFields, k, node, ec) ==
    IF ec.panicked \/ k > Len(requiredFields) THEN ec
    ELSE checkRequired(requiredFields, k + 1, node,
            IF requiredFields[k] \notin visitedFields(node)
            THEN Add(ec, ValidationError(node.Line,
                                         requiredFields[k] \o " is required"))
            ELSE ec)

validateAPIVersion(node, ec) ==
    IF node.Kind # ScalarNode \/ node.Value # APIVersionExpected
    THEN Add(ec, ValidationError(node.Line,
            "apiVersion has unsupported value '" \o node.Value \o "'"))
    ELSE ec

validateKind(node, ec) ==
    IF node.Kind # ScalarNode \/ node.Value # KindExpected
    THEN Add(ec, ValidationError(node.Line,
            "kind has unsupported value '" \o node.Value \o "'"))
    ELSE ec

\* validateName that never checks the snake case
validateName_NoSnakeCase(node, checkSnakeCase, ec) ==
    IF node.Kind # ScalarNode
    THEN Add(ec, ValidationError(node.Line, "name must be string"))
    ELSE IF node.Value = ""
    THEN Add(ec, ValidationError(node.Line, "name is required"))
    ELSE ec

validateName(node, checkSnakeCase, ec) ==
    IF node.Kind # ScalarNode
    THEN Add(ec, ValidationError(node.Line, "name must be string"))
    ELSE IF node.Value = ""
    THEN Add(ec, ValidationError(node.Line, "name is required"))
    ELSE IF checkSnakeCase /\ ~RegexSnakeCase(node.Value)
    THEN Add(ec, ValidationError(node.Line,
            "name has invalid format '" \o node.Value \o "'"))
    ELSE ec

RECURSIVE labelsLoop(_, _, _)
labelsLoop(node, i, ec) ==
    IF ec.panicked \/ i > Len(node.Content) THEN ec
    ELSE IF i + 1 > Len(node.Content) THEN Panic(ec)
    ELSE labelsLoop(node, i + 2,
            IF node.Content[i + 1].Kind # ScalarNode
            THEN Add(ec, ValidationError(node.Content[i + 1].Line,
                                         "label value must be string"))
            ELSE ec)

validateLabels(node, ec) ==
    IF node.Kind # MappingNode
    THEN Add(ec, ValidationError(node.Line, "labels must be a mapping"))
    ELSE labelsLoop(node, 1, ec)

RECURSIVE metadataLoop(_, _, _)
metadataLoop(node, i, ec) ==
    IF ec.panicked \/ i > Len(node.Content) THEN ec
    ELSE IF i + 1 > Len(node.Content) THEN Panic(ec)
    ELSE LET key == node.Content[i].Value
             valueNode == node.Content[i + 1]
         IN  metadataLoop(node, i + 2,
                CASE key = "name" -> validateName(valueNode, FALSE, ec)
                  [] key = "labels" -> validateLabels(valueNode, ec)
                  [] OTHER -> ec)

validateMetadata(node, ec) ==
    checkRequired(<<"name">>, 1, node,
                  metadataLoop(node, 1, ec))

validateOS(node, ec) ==
    IF node.Kind # ScalarNode
    THEN Add(ec, ValidationError(node.Line, "os must be string"))
    ELSE IF ~ContainsString(node.Value, SupportedOSNames)
    THEN Add(ec, ValidationError(node.Line,
            "os has unsupported value '" \o node.Value \o "'"))
    ELSE ec

validateImage(node, ec) ==
    IF node.Kind # ScalarNode
    THEN Add(ec, ValidationError(node.Line, "image must be string"))
    ELSE IF ~RegexImage(node.Value)
    THEN Add(ec, ValidationError(node.Line,
            "image has invalid format '" \o node.Value \o "'"))
    ELSE ec

\* validatePortNumber with the lower limit off by one
validatePortNumber_OffByOne(node, fieldName, ec) ==
    IF node.Kind # ScalarNode
    THEN Add(ec, ValidationError(node.Line, fieldName \o " must be int"))
    ELSE LET port == Atoi(node.Value)
         IN  IF port.err
             THEN Add(ec, ValidationError(node.Line,
                                          fieldName \o " must be int"))
             ELSE IF port.val <= PortNumberMin \/ port.val > PortNumberMax
             THEN Add(ec, ValidationError(node.Line,
                                          fieldName \o " value out of range"))
             ELSE ec

validatePortNumber(node, fieldName, ec) ==
    IF node.Kind # ScalarNode
    THEN Add(ec, ValidationError(node.Line, fieldName \o " must be int"))
    ELSE LET port == Atoi(node.Value)
         IN  IF port.err
             THEN Add(ec, ValidationError(node.Line,
                                          fieldName \o " must be int"))
             ELSE IF port.val < PortNumberMin \/ port.val > PortNumberMax
             THEN Add(ec, ValidationError(node.Line,
                                          fieldName \o " value out of range"))
             ELSE ec

validateProtocol(node, ec) ==
    IF node.Kind # ScalarNode
    THEN Add(ec, ValidationError(node.Line, "protocol must be string"))
    ELSE IF ~ContainsString(node.Value, SupportedProtocols)
    THEN Add(ec, ValidationError(node.Line,
            "protocol has unsupported value '" \o node.Value \o "'"))
    ELSE ec

RECURSIVE portLoop(_, _, _)
portLoop(node, i, ec) ==
    IF ec.panicked \/ i > Len(node.Content) THEN ec
    ELSE IF i + 1 > Len(node.Content) THEN Panic(ec)
    ELSE LET key == node.Content[i].Value
             valueNode == node.Content[i + 1]
         IN  portLoop(node, i + 2,
                CASE key = "containerPort" ->
                        validatePortNumber(valueNode, "containerPort", ec)
                  [] key = "protocol" -> validateProtocol(valueNode, ec)
                  [] OTHER -> ec)

\* validatePort that checks the required fields before the pass over the
\* pairs
validatePort_RequiredFirst(node, ec) ==
    IF Len(node.Content) % 2 = 1 THEN portLoop(node, 1, ec)
    ELSE portLoop(node, 1, checkRequired(<<"containerPort">>, 1, node, ec))

validatePort(node, ec) ==
    checkRequired(<<"containerPort">>, 1, node,
                  portLoop(node, 1, ec))

RECURSIVE portsLoop(_, _, _)
portsLoop(node, k, ec) ==
    IF ec.panicked \/ k > Len(node.Content) THEN ec
    ELSE portsLoop(node, k + 1, validatePort(node.Content[k], ec))

validatePorts(node, ec) ==
    IF node.Kind # SequenceNode
    THEN Add(ec, ValidationError(node.Line, "ports must be an array"))
    ELSE portsLoop(node, 1, ec)

validateHTTPPath(node, ec) ==
    IF node.Kind # ScalarNode
    THEN Add(ec, ValidationError(node.Line, "path must be string"))
    ELSE IF ~RegexAbsolutePath(node.Value)
    THEN Add(ec, ValidationError(node.Line,
            "path has invalid format '" \o node.Value \o "'"))
    ELSE ec

RECURSIVE httpGetLoop(_, _, _)
httpGetLoop(node, i, ec) ==
    IF ec.panicked \/ i > Len(node.Content) THEN ec
    ELSE IF i + 1 > Len(node.Content) THEN Panic(ec)
    ELSE LET key == node.Content[i].Value
             valueNode == node.Content[i + 1]
         IN  httpGetLoop(node, i + 2,
                CASE key = "path" -> validateHTTPPath(valueNode, ec)
                  [] key = "port" -> validatePortNumber(valueNode, "port", ec)
                  [] OTHER -> ec)

validateHTTPGet(node, ec) ==
    checkRequired(<<"path", "port">>, 1, node,
                  httpGetLoop(node, 1, ec))

RECURSIVE probeLoop(_, _, _)
probeLoop(node, i, ec) ==
    IF ec.panicked \/ i > Len(node.Content) THEN ec
    ELSE IF i + 1 > Len(node.Content) THEN Panic(ec)
    ELSE LET key == node.Content[i].Value
             valueNode == node.Content[i + 1]
         IN  probeLoop(node, i + 2,
                IF key = "httpGet" THEN validateHTTPGet(valueNode, ec)
                ELSE ec)

validateProbe(node, ec) ==
    checkRequired(<<"httpGet">>, 1, node,
                  probeLoop(node, 1, ec))

validateCPU(node, ec) ==
    IF node.Kind # ScalarNode
    THEN Add(ec, ValidationError(node.Line, "cpu must be int"))
    ELSE LET cpu == Atoi(node.Value)
         IN  IF cpu.err \/ cpu.val < 1
             THEN Add(ec, ValidationError(node.Line, "cpu value out of range"))
             ELSE ec

validateMemory(node, ec) ==
    IF node.Kind # ScalarNode
    THEN Add(ec, ValidationError(node.Line, "memory must be string"))
    ELSE LET matches == RegexMemory(node.Value)
         IN  IF matches = <<>>
             THEN Add(ec, ValidationError(node.Line,
                    "memory has invalid format '" \o node.Value \o "'"))
             ELSE LET amount == Atoi(matches[2])
                  IN  IF amount.err \/ amount.val < 1
                      THEN Add(ec, ValidationError(node.Line,
                                    "memory value out of range"))
                      ELSE ec

RECURSIVE validateResourceRequirementsLoop(_, _, _)
validateResourceRequirementsLoop(node, i, ec) ==
    IF ec.panicked \/ i > Len(node.Content) THEN ec
    ELSE IF i + 1 > Len(node.Content) THEN Panic(ec)
    ELSE LET key == node.Content[i].Value
             valueNode == node.Content[i + 1]
         IN  validateResourceRequirementsLoop(node, i + 2,
                CASE key = "cpu" -> validateCPU(valueNode, ec)
                  [] key = "memory" -> validateMemory(valueNode, ec)
                  [] OTHER -> ec)

validateResourceRequirements(node, ec) ==
    validateResourceRequirementsLoop(node, 1, ec)

RECURSIVE validateResourcesLoop(_, _, _)
validateResourcesLoop(node, i, ec) ==
    IF ec.panicked \/ i > Len(node.Content) THEN ec
    ELSE IF i + 1 > Len(node.Content) THEN Panic(ec)
    ELSE validateResourcesLoop(node, i + 2,
            validateResourceRequirements(node.Content[i + 1], ec))

validateResources(node, ec) == validateResourcesLoop(node, 1, ec)

\* the loop of validateContainer with an error for a key it does not know
RECURSIVE containerLoop_Strict(_, _, _)
containerLoop_Strict(node, i, ec) ==
    IF ec.panicked \/ i > Len(node.Content) THEN ec
    ELSE IF i + 1 > Len(node.Content) THEN Panic(ec)
    ELSE LET key == node.Content[i].Value
             valueNode == node.Content[i + 1]
         IN  containerLoop_Strict(node, i + 2,
                CASE key = "name" -> validateName(valueNode, TRUE, ec)
                  [] key = "image" -> validateImage(valueNode, ec)
                  [] key = "ports" -> validatePorts(valueNode, ec)
                  [] key = "readinessProbe" -> validateProbe(valueNode, ec)
                  [] key = "livenessProbe" -> validateProbe(valueNode, ec)
                  [] key = "resources" -> validateResources(valueNode, ec)
                  [] OTHER -> Add(ec, ValidationError(valueNode.Line,
                                        key \o " is not supported")))

RECURSIVE containerLoop(_, _, _)
containerLoop(node, i, ec) ==
    IF ec.panicked \/ i > Len(node.Content) THEN ec
    ELSE IF i + 1 > Len(node.Content) THEN Panic(ec)
    ELSE LET key == node.Content[i].Value
             valueNode == node.Content[i + 1]
         IN  containerLoop(node, i + 2,
                CASE key = "name" -> validateName(valueNode, TRUE, ec)
                  [] key = "image" -> validateImage(valueNode, ec)
                  [] key = "ports" -> validatePorts(valueNode, ec)
                  [] key = "readinessProbe" -> validateProbe(valueNode, ec)
                  [] key = "livenessProbe" -> validateProbe(valueNode, ec)
                  [] key = "resources" -> validateResources(valueNode, ec)
                  [] OTHER -> ec)

validateContainer(node, ec) ==
    checkRequired(<<"name", "image", "resources">>, 1, node,
                  containerLoop(node, 1, ec))

RECURSIVE containersLoop(_, _, _)
containersLoop(node, k, ec) ==
    IF ec.panicked \/ k > Len(node.Content) THEN ec
    ELSE containersLoop(node, k + 1, validateContainer(node.Content[k], ec))

validateContainers(node, ec) ==
    IF node.Kind # SequenceNode
    THEN Add(ec, ValidationError(node.Line, "containers must be an array"))
    ELSE containersLoop(node, 1, ec)

RECURSIVE specLoop(_, _, _)
specLoop(node, i, ec) ==
    IF ec.panicked \/ i > Len(node.Content) THEN ec
    ELSE IF i + 1 > Len(node.Content) THEN Panic(ec)
    ELSE LET key == node.Content[i].Value
             valueNode == node.Content[i + 1]
         IN  specLoop(node, i + 2,
                CASE key = "os" -> validateOS(valueNode, ec)
                  [] key = "containers" -> validateContainers(valueNode, ec)
                  [] OTHER -> ec)

validateSpec(node, ec) ==
    checkRequired(<<"containers">>, 1, node,
                  specLoop(node, 1, ec))

RECURSIVE podLoop(_, _, _)
podLoop(node, i, ec) ==
    IF ec.panicked \/ i > Len(node.Content) THEN ec
    ELSE IF i + 1 > Len(node.Content) THEN Panic(ec)
    ELSE LET key == node.Content[i].Value
             valueNode == node.Content[i + 1]
         IN  podLoop(node, i + 2,
                CASE key = "apiVersion" -> validateAPIVersion(valueNode, ec)
                  [] key = "kind" -> validateKind(valueNode, ec)
                  [] key = "metadata" -> validateMetadata(valueNode, ec)
                  [] key = "spec" -> validateSpec(valueNode, ec)
                  [] OTHER -> ec)

\* validatePod that stops at the first problem: the required check is left
\* out once the pass over the pairs has found an error
RequiredUnlessFailed(requiredFields, node, before, ec) ==
    IF Len(ec.Errors) > before THEN ec
    ELSE checkRequired(requiredFields, 1, node, ec)

validatePod_FailFast(node, ec) ==
    RequiredUnlessFailed(<<"apiVersion", "kind", "metadata", "spec">>, node,
                         Len(ec.Errors), podLoop(node, 1, ec))

validatePod(node, ec) ==
    checkRequired(<<"apiVersion", "kind", "metadata", "spec">>, 1, node,
                  podLoop(node, 1, ec))

\* the loop of Validate that stops after the first document
RECURSIVE docsLoop_FirstOnly(_, _, _)
docsLoop_FirstOnly(root, k, ec) ==
    IF ec.panicked \/ k > Len(root.Content) \/ k > 1 THEN ec
    ELSE docsLoop_FirstOnly(root, k + 1, validatePod(root.Content[k], ec))

\* for _, doc := range v.RootNode.Content { v.validatePod(doc) }
RECURSIVE docsLoop(_, _, _)
docsLoop(root, k, ec) ==
    IF ec.panicked \/ k > Len(root.Content) THEN ec
    ELSE docsLoop(root, k + 1, validatePod(root.Content[k], ec))

-----------------------------------------------------------------------------
(* The Validator and main *)

\* The collector after Validate() has run on root with the Errors so far.
ValidateRun(root, errors) == docsLoop(root, 1, NewCollector(errors))

\* v.Validate(): a panic ends the process with status 2, otherwise the
\* Errors slice is returned (and recorded, call after call, in returns).
Validate ==
    /\ pc \in {"ready", "returned"}
    /\ calls < MaxCalls
    /\ LET ec == ValidateRun(RootNode, Errors)
       IN  /\ Errors' = ec.Errors
           /\ IF ec.panicked
              THEN /\ pc' = "panicked"
                   /\ exitCode' = 2
                   /\ UNCHANGED returns
              ELSE /\ pc' = "returned"
                   /\ returns' = Append(returns, ec.Errors)
                   /\ UNCHANGED exitCode
    /\ calls' = calls + 1
    /\ UNCHANGED <<RootNode, output>>

RECURSIVE ErrorLines(_)
ErrorLines(errors) ==
    IF errors = <<>> THEN <<>>
    ELSE <<ErrorString(Head(errors))>> \o ErrorLines(Tail(errors))

\* main after its call of Validate(): print the errors and exit 1, or
\* print that the file is valid.
Report ==
    /\ pc = "returned"
    /\ calls = 1
    /\ LET errors == returns[Len(returns)]
       IN  IF Len(errors) > 0
           THEN /\ output' = ErrorLines(errors)
                /\ exitCode' = 1
           ELSE /\ output' = <<"YAML file is valid">>
                /\ exitCode' = 0
    /\ pc' = "exited"
    /\ UNCHANGED <<RootNode, Errors, returns, calls>>

-----------------------------------------------------------------------------
(* Input trees, laid out as the parser lays out this file:                 *)
(*    1 apiVersion: v1              12       ports:                        *)
(*    2 kind: Pod                   13         - containerPort: 80         *)
(*    3 metadata:                   14           protocol: TCP             *)
(*    4   name: web                 15       readinessProbe:               *)
(*    5   labels:                   16         httpGet:                    *)
(*    6     app: web                17           path: /                   *)
(*    7 spec:                       18           port: 8080                *)
(*    8   os: linux                 19       resources:                    *)
(*    9   containers:               20         limits:                     *)
(*   10     - name: web_app         21           cpu: 1                    *)
(*   11       image: registry...    22           memory: 256Mi             *)
(* A mapping or sequence node carries the line of its first child.  A      *)
(* configuration gives, per field, whether the field is absent, built as   *)
(* above, or replaced by a given node.                                     *)

Scalar(value, line) == Node(ScalarNode, value, line, <<>>)

MappingOf(content, emptyLine) ==
    Node(MappingNode, "",
         IF content = <<>> THEN emptyLine ELSE content[1].Line, content)

SequenceOf(content, emptyLine) ==
    Node(SequenceNode, "",
         IF content = <<>> THEN emptyLine ELSE content[1].Line, content)

Fields ==
    {"doc", "apiVersion", "kind", "metadata", "name", "labels", "spec", "os",
     "containers", "container", "cname", "image", "ports", "port",
     "containerPort", "protocol", "readinessProbe", "httpGet", "path",
     "hport", "resources", "limits", "cpu", "memory"}

\* the line of the field's key in the layout
LineOf(field) ==
    CASE field = "doc" -> 1 [] field = "apiVersion" -> 1
      [] field = "kind" -> 2 [] field = "metadata" -> 3
      [] field = "name" -> 4 [] field = "labels" -> 5
      [] field = "spec" -> 7 [] field = "os" -> 8
      [] field = "containers" -> 9 [] field = "container" -> 10
      [] field = "cname" -> 10 [] field = "image" -> 11
      [] field = "ports" -> 12 [] field = "port" -> 13
      [] field = "containerPort" -> 13 [] field = "protocol" -> 14
      [] field = "readinessProbe" -> 15 [] field = "httpGet" -> 16
      [] field = "path" -> 17 [] field = "hport" -> 18
      [] field = "resources" -> 19 [] field = "limits" -> 20
      [] field = "cpu" -> 21 [] field = "memory" -> 22

\* the key under which the field stands in its parent
KeyOf(field) ==
    CASE field = "cname" -> "name" [] field = "hport" -> "port"
      [] OTHER -> field

Parent(field) ==
    CASE field \in {"apiVersion", "kind", "metadata", "spec"} -> "doc"
      [] field \in {"name", "labels"} -> "metadata"
      [] field \in {"os", "containers"} -> "spec"
      [] field = "container" -> "containers"
      [] field \in {"cname", "image", "ports", "readinessProbe", "resources"}
            -> "container"
      [] field = "port" -> "ports"
      [] field \in {"containerPort", "protocol"} -> "port"
      [] field = "httpGet" -> "readinessProbe"
      [] field \in {"path", "hport"} -> "httpGet"
      [] field = "limits" -> "resources"
      [] field \in {"cpu", "memory"} -> "limits"

RECURSIVE Ancestors(_)
Ancestors(field) ==
    IF field = "doc" THEN {}
    ELSE {Parent(field)} \cup Ancestors(Parent(field))

Absent == [mode |-> "absent", node |-> Scalar("", 0)]

Built == [mode |-> "build", node |-> Scalar("", 0)]

Given(node) == [mode |-> "given", node |-> node]

\* the value node of a field
Value(cfg, field, built) ==
    IF cfg[field].mode = "given" THEN cfg[field].node ELSE built

\* the key/value pair of a field, nothing when the field is absent
Entry(cfg, field, built) ==
    IF cfg[field].mode = "absent" THEN <<>>
    ELSE <<Scalar(KeyOf(field), LineOf(field)), Value(cfg, field, built)>>

Leaf(cfg, field, text) == Entry(cfg, field, Scalar(text, LineOf(field)))

\* an element of a sequence
Element(cfg, field, built) ==
    IF cfg[field].mode = "absent" THEN <<>>
    ELSE <<Value(cfg, field, built)>>

BuildLabels(cfg) ==
    MappingOf(<<Scalar("app", 6), Scalar("web", 6)>>, LineOf("labels"))

BuildMetadata(cfg) ==
    MappingOf(Leaf(cfg, "name", "web")
                \o Entry(cfg, "labels", BuildLabels(cfg)),
              LineOf("metadata"))

BuildLimits(cfg) ==
    MappingOf(Leaf(cfg, "cpu", "1") \o Leaf(cfg, "memory", "256Mi"),
              LineOf("limits"))

BuildResources(cfg) ==
    MappingOf(Entry(cfg, "limits", BuildLimits(cfg)), LineOf("resources"))

BuildHTTPGet(cfg) ==
    MappingOf(Leaf(cfg, "path", "/") \o Leaf(cfg, "hport", "8080"),
              LineOf("httpGet"))

BuildProbe(cfg) ==
    MappingOf(Entry(cfg, "httpGet", BuildHTTPGet(cfg)),
              LineOf("readinessProbe"))

BuildPort(cfg) ==
    MappingOf(Leaf(cfg, "containerPort", "80") \o Leaf(cfg, "protocol", "TCP"),
              LineOf("port"))

BuildPorts(cfg) ==
    SequenceOf(Element(cfg, "port", BuildPort(cfg)), LineOf("ports"))

BuildContainer(cfg) ==
    MappingOf(Leaf(cfg, "cname", "web_app")
                \o Leaf(cfg, "image", "registry.bigbrother.io/app:1.0")
                \o Entry(cfg, "ports", BuildPorts(cfg))
                \o Entry(cfg, "readinessProbe", BuildProbe(cfg))
                \o Entry(cfg, "resources", BuildResources(cfg)),
              LineOf("container"))

BuildContainers(cfg) ==
    SequenceOf(Element(cfg, "container", BuildContainer(cfg)),
               LineOf("containers"))

BuildSpec(cfg) ==
    MappingOf(Leaf(cfg, "os", "linux")
                \o Entry(cfg, "containers", BuildContainers(cfg)),
              LineOf("spec"))

BuildPod(cfg) ==
    Value(cfg, "doc",
          MappingOf(Leaf(cfg, "apiVersion", "v1")
                      \o Leaf(cfg, "kind", "Pod")
                      \o Entry(cfg, "metadata", BuildMetadata(cfg))
                      \o Entry(cfg, "spec", BuildSpec(cfg)),
                    LineOf("doc")))

\* what yaml.Unmarshal leaves in root for a file of one document
Root(docs) == Node(DocumentNode, "", 1, docs)

\* root of an empty file: Unmarshal leaves the zero Node
ZeroNode == Node(ZeroKind, "", 0, <<>>)

\* every field of the layout
FullCfg == [f \in Fields |-> Built]

\* scenario A: the required fields and limits only
OptionalFields ==
    {"labels", "os", "ports", "readinessProbe"}

MinimalCfg == [f \in Fields |-> IF f \in OptionalFields THEN Absent ELSE Built]

-----------------------------------------------------------------------------
(* Defects: one missing required field or one invalid value of one field   *)

Defect(field, how) == [field |-> field, how |-> how]

\* defects of the fields of the minimal document
MinimalDefects ==
    {Defect("apiVersion", "missing"), Defect("apiVersion", "value"),
     Defect("apiVersion", "kind"),
     Defect("kind", "missing"), Defect("kind", "value"),
     Defect("metadata", "missing"),
     Defect("name", "missing"), Defect("name", "empty"),
     Defect("name", "kind"),
     Defect("spec", "missing"),
     Defect("containers", "missing"), Defect("containers", "kind"),
     Defect("cname", "missing"), Defect("cname", "value"),
     Defect("cname", "nextline"), Defect("cname", "empty"),
     Defect("image", "missing"), Defect("image", "value"),
     Defect("image", "kind"),
     Defect("resources", "missing"),
     Defect("cpu", "value"), Defect("cpu", "kind"),
     Defect("memory", "value"), Defect("memory", "range"),
     Defect("memory", "kind")}

\* defects of the optional fields of the full document
OptionalDefects ==
    {Defect("os", "value"), Defect("os", "kind"),
     Defect("labels", "kind"),
     Defect("ports", "kind"),
     Defect("containerPort", "missing"), Defect("containerPort", "value"),
     Defect("containerPort", "kind"),
     Defect("protocol", "value"), Defect("protocol", "nextline"),
     Defect("protocol", "kind"),
     Defect("httpGet", "missing"),
     Defect("path", "missing"), Defect("path", "value"),
     Defect("hport", "missing"), Defect("hport", "value")}

\* the invalid text of a defect of kind value, nextline, range or empty
BadText(d) ==
    CASE d.how = "empty" -> ""
      [] d.how = "range" -> "0Mi"
      [] d.field = "apiVersion" -> "v2"
      [] d.field = "kind" -> "Deployment"
      [] d.field = "cname" -> "WebApp"
      [] d.field = "image" -> "docker.io/app:1.0"
      [] d.field = "cpu" -> "0"
      [] d.field = "memory" -> "512"
      [] d.field = "os" -> "macos"
      [] d.field = "containerPort" -> "65536"
      [] d.field = "protocol" -> "HTTP"
      [] d.field = "path" -> "healthz"
      [] d.field = "hport" -> "0"

\* the configuration entry of a defect: the field is taken away, or given
\* a scalar with an invalid text (on the line of the key, or on the next
\* line), or given a node of the kind the field must not have
DefectEntry(d) ==
    CASE d.how = "missing" -> Absent
      [] d.how = "nextline" ->
            Given(Scalar(BadText(d), LineOf(d.field) + 1))
      [] d.how = "kind" ->
            Given(IF d.field \in {"containers", "ports", "labels"}
                  THEN Scalar("none", LineOf(d.field))
                  ELSE SequenceOf(<<Scalar("a", LineOf(d.field) + 1)>>,
                                  LineOf(d.field)))
      [] OTHER -> Given(Scalar(BadText(d), LineOf(d.field)))

NonOverlapping(D) ==
    \A d1 \in D : \A d2 \in D :
        d1 # d2 => /\ d1.field # d2.field
                   /\ d1.field \notin Ancestors(d2.field)

\* the sets of at most n non-overlapping defects out of all
RECURSIVE DefectSets(_, _)
DefectSets(all, n) ==
    IF n = 0 THEN {{}}
    ELSE LET smaller == DefectSets(all, n - 1)
         IN  smaller \cup
             UNION {{D \cup {d} :
                        d \in {e \in all : NonOverlapping(D \cup {e})}} :
                    D \in smaller}

Inject(cfg, D) ==
    [f \in Fields |->
        IF \E d \in D : d.field = f
        THEN DefectEntry(CHOOSE d \in D : d.field = f)
        ELSE cfg[f]]

MinimalDefectSets == DefectSets(MinimalDefects, MaxDefects)

PodRoot(cfg) == Root(<<BuildPod(cfg)>>)

\* the minimal document with every set of at most MaxDefects defects: the
\* defects and the root they give
MinimalCases ==
    {[defects |-> D, root |-> PodRoot(Inject(MinimalCfg, D))] :
        D \in MinimalDefectSets}

MinimalInputs == {c.root : c \in MinimalCases}

\* the full document with at most one defect, or with at most MaxDefects
\* defects of its optional fields
FullInputs ==
    {PodRoot(Inject(FullCfg, D)) :
        D \in DefectSets(MinimalDefects \cup OptionalDefects, 1)
              \cup DefectSets(OptionalDefects, MaxDefects)}

\* Fields whose value the schema expects to be a mapping, given a node of
\* another kind: a scalar, an alias, or a sequence of up to MaxSeqLen
\* scalars of which the first two read as a key of the shape and a value.
MappingFields ==
    {"doc", "metadata", "spec", "container", "port", "readinessProbe",
     "httpGet", "resources", "limits", "labels"}

SomeKey(field) ==
    CASE field = "doc" -> "kind" [] field = "metadata" -> "name"
      [] field = "spec" -> "containers" [] field = "container" -> "name"
      [] field = "port" -> "containerPort"
      [] field = "readinessProbe" -> "httpGet"
      [] field = "httpGet" -> "port" [] field = "resources" -> "limits"
      [] field = "limits" -> "cpu" [] field = "labels" -> "app"

SomeValue(field) ==
    CASE field \in {"port", "httpGet", "limits"} -> "0"
      [] field = "metadata" -> ""
      [] OTHER -> "Other"

MismatchNodes(field) ==
    {Scalar("text", LineOf(field)), Node(AliasNode, "", LineOf(field), <<>>)}
    \cup {SequenceOf([i \in 1..k |->
                        Scalar(IF i = 1 THEN SomeKey(field)
                               ELSE IF i = 2 THEN SomeValue(field)
                               ELSE "more", LineOf(field) + i)],
                     LineOf(field)) : k \in 0..MaxSeqLen}

MismatchRoot(field, node) == PodRoot([FullCfg EXCEPT ![field] = Given(node)])

MismatchInputs ==
    UNION {{MismatchRoot(f, n) : n \in MismatchNodes(f)} : f \in MappingFields}

\* Integer scalars: the text as it stands in the file and the integer the
\* YAML parser resolves it to (tag !!int).
TestInts == {-1, 0, 1, 2, 80, 65534, 65535, 65536, 70000}

\* base-10 literals: an optional sign and decimal digits
DecimalLiterals ==
    {[text |-> Itoa(p), val |-> p] : p \in TestInts}
        \cup {[text |-> "+80", val |-> 80], [text |-> "+0", val |-> 0],
              [text |-> "-0", val |-> 0], [text |-> "+65536", val |-> 65536]}

\* hexadecimal and octal literals, and digits grouped by underscores
OtherLiterals ==
    {[text |-> "0x50", val |-> 80], [text |-> "0x0", val |-> 0],
     [text |-> "0o17", val |-> 15], [text |-> "65_535", val |-> 65535]}

IntLiterals == DecimalLiterals \cup OtherLiterals

\* scalars that are no integers, or too large for an int
OtherTexts == {"", "abc", "1.5", "-", "9223372036854775807",
               "9223372036854775808"}

IntFields == {"containerPort", "hport", "cpu"}

IntRoot(field, text) ==
    PodRoot([FullCfg EXCEPT ![field] = Given(Scalar(text, LineOf(field)))])

IntInputs ==
    {IntRoot(f, t) : f \in IntFields,
                     t \in {lit.text : lit \in IntLiterals} \cup OtherTexts}

\* Roots of no document (an empty file) and of up to MaxDocs documents
DocSamples ==
    {BuildPod(MinimalCfg),
     BuildPod(Inject(MinimalCfg, {Defect("apiVersion", "missing")})),
     BuildPod(Inject(MinimalCfg, {Defect("cname", "value"),
                                  Defect("memory", "value")}))}

DocsInputs ==
    {ZeroNode} \cup
    UNION {{Root(ds) : ds \in [1..k -> DocSamples]} : k \in 0..MaxDocs}

Inputs ==
    MinimalInputs \cup FullInputs \cup MismatchInputs \cup IntInputs
        \cup DocsInputs

-----------------------------------------------------------------------------

Init ==
    /\ RootNode \in Inputs
    /\ Errors = <<>>
    /\ returns = <<>>
    /\ pc = "ready"
    /\ calls = 0
    /\ output = <<>>
    /\ exitCode = 0

Next == Validate \/ Report

Spec == Init /\ [][Next]_vars

\* the list returned by the last call of Validate()
result == returns[Len(returns)]

\* the first call of Validate() on the Validator has returned
FirstReturned == calls = 1 /\ pc = "returned"

-----------------------------------------------------------------------------
(* Reading the tree along the schema *)

Range(seq) == {seq[i] : i \in 1..Len(seq)}

\* the indices of the keys of the pairs of a node
KeyIndices(node) ==
    {i \in 1..Len(node.Content) : i % 2 = 1 /\ i + 1 <= Len(node.Content)}

Keys(node) == {node.Content[i].Value : i \in KeyIndices(node)}

\* the value nodes that stand under key in node
ValuesUnder(node, key) ==
    {node.Content[i + 1] : i \in {j \in KeyIndices(node) :
                                    node.Content[j].Value = key}}

AllValues(node) == {node.Content[i + 1] : i \in KeyIndices(node)}

ValuesUnderAll(nodes, key) == UNION {ValuesUnder(n, key) : n \in nodes}

ElementsOfAll(nodes) ==
    UNION {Range(n.Content) : n \in {m \in nodes : m.Kind = SequenceNode}}

\* the nodes of root that the traversal takes for an object of each shape
ShapeNodes(root, shape) ==
    LET pods       == Range(root.Content)
        specs      == ValuesUnderAll(pods, "spec")
        containers == ElementsOfAll(ValuesUnderAll(specs, "containers"))
        ports      == ElementsOfAll(ValuesUnderAll(containers, "ports"))
        probes     == ValuesUnderAll(containers, "readinessProbe")
                        \cup ValuesUnderAll(containers, "livenessProbe")
        resources  == ValuesUnderAll(containers, "resources")
    IN  CASE shape = "document" -> pods
          [] shape = "metadata" -> ValuesUnderAll(pods, "metadata")
          [] shape = "spec" -> specs
          [] shape = "container" -> containers
          [] shape = "port" -> ports
          [] shape = "probe" -> probes
          [] shape = "httpGet" -> ValuesUnderAll(probes, "httpGet")
          [] shape = "requirements" -> UNION {AllValues(r) : r \in resources}

Shapes ==
    {"document", "metadata", "spec", "container", "port", "probe", "httpGet",
     "requirements"}

\* the validator of an object of the shape
ValidateShape(shape, node, ec) ==
    CASE shape = "document" -> validatePod(node, ec)
      [] shape = "metadata" -> validateMetadata(node, ec)
      [] shape = "spec" -> validateSpec(node, ec)
      [] shape = "container" -> validateContainer(node, ec)
      [] shape = "port" -> validatePort(node, ec)
      [] shape = "probe" -> validateProbe(node, ec)
      [] shape = "httpGet" -> validateHTTPGet(node, ec)
      [] shape = "requirements" -> validateResourceRequirements(node, ec)

\* the fields the schema declares required for the shape
RequiredOf(shape) ==
    CASE shape = "document" -> {"apiVersion", "kind", "metadata", "spec"}
      [] shape = "metadata" -> {"name"}
      [] shape = "spec" -> {"containers"}
      [] shape = "container" -> {"name", "image", "resources"}
      [] shape = "port" -> {"containerPort"}
      [] shape = "probe" -> {"httpGet"}
      [] shape = "httpGet" -> {"path", "port"}
      [] shape = "requirements" -> {}

\* the keys the schema knows for the shape
KnownOf(shape) ==
    CASE shape = "document" -> {"apiVersion", "kind", "metadata", "spec"}
      [] shape = "metadata" -> {"name", "labels"}
      [] shape = "spec" -> {"os", "containers"}
      [] shape = "container" -> {"name", "image", "ports", "readinessProbe",
                                 "livenessProbe", "resources"}
      [] shape = "port" -> {"containerPort", "protocol"}
      [] shape = "probe" -> {"httpGet"}
      [] shape = "httpGet" -> {"path", "port"}
      [] shape = "requirements" -> {"cpu", "memory"}

\* the tree with every occurrence of node old replaced by new
RECURSIVE Substitute(_, _, _)
Substitute(tree, old, new) ==
    IF tree = old THEN new
    ELSE [tree EXCEPT !.Content =
            [i \in 1..Len(tree.Content) |->
                Substitute(tree.Content[i], old, new)]]

\* node with the pair key: value put after its first n pairs
InsertPair(node, n, key, value) ==
    [node EXCEPT !.Content =
        SubSeq(node.Content, 1, 2 * n) \o <<key, value>>
            \o SubSeq(node.Content, 2 * n + 1, Len(node.Content))]

-----------------------------------------------------------------------------
(* Claims *)

C2_NeverFatal == pc # "panicked"

\* the indices of the errors "<field> is required" that validating node as
\* an object of the shape gives
RequiredHits(shape, node, field) ==
    LET errs == ValidateShape(shape, node, NewCollector(<<>>)).Errors
    IN  {i \in 1..Len(errs) : errs[i].Message = field \o " is required"}

ShapeErrors(shape, node) ==
    ValidateShape(shape, node, NewCollector(<<>>)).Errors

\* the mappings of RootNode that stand where the schema has the shape
MappingsOf(shape) ==
    {n \in ShapeNodes(RootNode, shape) :
        n.Kind = MappingNode /\ Len(n.Content) % 2 = 0}

\* removing one of the four fields of the minimal valid document gives
\* exactly the one error, on the line of the document
C3_TopLevel ==
    \A f \in {"apiVersion", "kind", "metadata", "spec"} :
        RootNode = PodRoot(Inject(MinimalCfg, {Defect(f, "missing")})) =>
            result = <<ValidationError(RootNode.Content[1].Line,
                                       f \o " is required")>>

\* C3 as stated (required-field detection): for every mapping of a shape
\* and every field required for it, an absent key gives exactly one error
\* "<field> is required" on the line of the mapping, and a present key
\* gives no such error.
C3_Original ==
    FirstReturned =>
        /\ C3_TopLevel
        /\ \A shape \in Shapes : \A n \in MappingsOf(shape) :
              \A f \in RequiredOf(shape) :
                 LET errs == ShapeErrors(shape, n)
                     hits == RequiredHits(shape, n, f)
                 IN  IF f \notin Keys(n)
                     THEN /\ Cardinality(hits) = 1
                          /\ \A i \in hits : errs[i].Line = n.Line
                     ELSE hits = {}

\* the values of the pairs of node with the key name and an empty scalar
EmptyNames(node, field) ==
    {i \in KeyIndices(node) :
        /\ field = "name"
        /\ node.Content[i].Value = "name"
        /\ node.Content[i + 1].Kind = ScalarNode
        /\ node.Content[i + 1].Value = ""}

\* C3 as amended: an absent key gives exactly one error "<field> is
\* required" on the line of the mapping; for a present key the required
\* check gives none, and the only such errors are those of validateName,
\* "name is required", one for each name given as an empty scalar, each on
\* the line of that value node.  The errors are part of the list returned.
C3_RequiredFields ==
    FirstReturned =>
        /\ C3_TopLevel
        /\ \A shape \in Shapes : \A n \in MappingsOf(shape) :
              \A f \in RequiredOf(shape) :
                 LET errs == ShapeErrors(shape, n)
                     hits == RequiredHits(shape, n, f)
                 IN  /\ \A i \in hits : errs[i] \in Range(result)
                     /\ IF f \notin Keys(n)
                        THEN /\ Cardinality(hits) = 1
                             /\ \A i \in hits : errs[i].Line = n.Line
                        ELSE /\ Cardinality(hits)
                                  = Cardinality(EmptyNames(n, f))
                             /\ {errs[i].Line : i \in hits}
                                  = {n.Content[j + 1].Line :
                                        j \in EmptyNames(n, f)}

C3_Witness ==
    /\ FirstReturned
    /\ \E n \in MappingsOf("httpGet") :
          /\ "path" \notin Keys(n)
          /\ "port" \in Keys(n)
          /\ result = <<ValidationError(n.Line, "path is required")>>

\* C4 (idempotence): every call of Validate() on the same Validator
\* returns the same list.
C4_Idempotent ==
    \A i \in 1..Len(returns) : \A j \in 1..Len(returns) :
        returns[i] = returns[j]

\* Scenario C: the full document whose port entry is {protocol: "HTTP"},
\* the value on the line of its key or on the next line
ScenarioC ==
    {PodRoot(Inject(FullCfg, {Defect("containerPort", "missing"),
                              Defect("protocol", how)})) :
        how \in {"value", "nextline"}}

\* C5 as stated: exactly two errors, both with the line of the port node,
\* first "containerPort is required", then the error of protocol.
C5_Original ==
    FirstReturned /\ RootNode \in ScenarioC =>
        \A port \in ShapeNodes(RootNode, "port") :
            result = <<ValidationError(port.Line, "containerPort is required"),
                       ValidationError(port.Line,
                            "protocol has unsupported value 'HTTP'")>>

\* C5 as amended: exactly two errors in the order of detection: first
\* "protocol has unsupported value 'HTTP'" with the line of the protocol
\* value node, then "containerPort is required" with the line of the port
\* node.
C5_ScenarioC ==
    FirstReturned /\ RootNode \in ScenarioC =>
        \A port \in ShapeNodes(RootNode, "port") :
            \A value \in ValuesUnder(port, "protocol") :
                result = <<ValidationError(value.Line,
                                "protocol has unsupported value 'HTTP'"),
                           ValidationError(port.Line,
                                "containerPort is required")>>

C5_Witness ==
    /\ FirstReturned
    /\ RootNode \in ScenarioC
    /\ \E port \in ShapeNodes(RootNode, "port") :
          /\ Keys(port) = {"protocol"}
          /\ \E value \in ValuesUnder(port, "protocol") :
                value.Line # port.Line
    /\ Len(result) = 2

\* Scenario B: the minimal document with the container name "WebApp" and
\* the image "docker.io/app:1.0", the name on the line of its key or on the
\* next line
ScenarioB ==
    {PodRoot(Inject(MinimalCfg, {Defect("cname", how),
                                 Defect("image", "value")})) :
        how \in {"value", "nextline"}}

\* C6 as stated: exactly two errors, the first containing "name has invalid
\* format", the second "image has invalid format", both with the line of
\* the container node.
C6_Original ==
    FirstReturned /\ RootNode \in ScenarioB =>
        \A container \in ShapeNodes(RootNode, "container") :
            /\ Len(result) = 2
            /\ HasPrefix(result[1].Message, "name has invalid format")
            /\ HasPrefix(result[2].Message, "image has invalid format")
            /\ result[1].Line = container.Line
            /\ result[2].Line = container.Line

\* C6 as amended: exactly two errors, the first containing "name has
\* invalid format" with the line of the name value node, the second
\* containing "image has invalid format" with the line of the image value
\* node.
C6_ScenarioB ==
    FirstReturned /\ RootNode \in ScenarioB =>
        \A container \in ShapeNodes(RootNode, "container") :
            \A name \in ValuesUnder(container, "name") :
                \A image \in ValuesUnder(container, "image") :
                    /\ Len(result) = 2
                    /\ HasPrefix(result[1].Message, "name has invalid format")
                    /\ HasPrefix(result[2].Message, "image has invalid format")
                    /\ result[1].Line = name.Line
                    /\ result[2].Line = image.Line

C6_Witness ==
    /\ FirstReturned
    /\ RootNode \in ScenarioB
    /\ \E container \in ShapeNodes(RootNode, "container") :
          /\ \E name \in ValuesUnder(container, "name") :
                name.Value = "WebApp"
          /\ \E image \in ValuesUnder(container, "image") :
                image.Value = "docker.io/app:1.0"
                    /\ image.Line # container.Line
    /\ Len(result) = 2

\* what the range claim gives for the full document whose field is the
\* integer literal lit: the one error "value out of range" on the line of
\* the scalar when the integer is out of the range of the field, no error
\* otherwise
RangeErrors(field, lit) ==
    IF \/ lit.val < 1
       \/ field \in {"containerPort", "hport"} /\ lit.val > 65535
    THEN <<ValidationError(LineOf(field),
                           KeyOf(field) \o " value out of range")>>
    ELSE <<>>

\* C7 as stated: for every scalar integer value, containerPort and the
\* port of httpGet give "value out of range" exactly below 1 and above
\* 65535, cpu exactly below 1, and no error otherwise.
C7_Original ==
    FirstReturned =>
        \A field \in IntFields : \A lit \in IntLiterals :
            RootNode = IntRoot(field, lit.text) =>
                result = RangeErrors(field, lit)

\* C7 as amended: the same for every scalar whose text is a base-10
\* integer literal (an optional sign and decimal digits) that fits an int.
C7_Ranges ==
    FirstReturned =>
        \A field \in IntFields : \A lit \in DecimalLiterals :
            RootNode = IntRoot(field, lit.text) =>
                result = RangeErrors(field, lit)

C7_Witness ==
    /\ FirstReturned
    /\ RootNode = IntRoot("containerPort", Itoa(65536))
    /\ result = <<ValidationError(LineOf("containerPort"),
                                  "containerPort value out of range")>>

\* keys some shape does not know, with values that are errors under a key
\* a shape knows
UnknownPairs ==
    {<<Scalar("extra", 30), Scalar("", 30)>>,
     <<Scalar("", 30),
       MappingOf(<<Scalar("name", 31), Scalar("", 31),
                   Scalar("cpu", 32), Scalar("0", 32),
                   Scalar("containerPort", 33), Scalar("0", 33)>>, 30)>>,
     <<Scalar("Name", 30),
       SequenceOf(<<Scalar("kind", 31)>>, 30)>>,
     <<Scalar("name", 30), Scalar("", 30)>>,
     <<Scalar("port", 30), Scalar("0", 30)>>,
     <<Scalar("cpu", 30), MappingOf(<<>>, 30)>>}

\* C8 (unknown keys are ignored): adding, at any position among the pairs
\* of any mapping that stands where the schema has a shape, a key the shape
\* does not know, with any value, leaves the list returned unchanged.
C8_UnknownKeysIgnored ==
    FirstReturned =>
        \A shape \in Shapes : \A n \in MappingsOf(shape) :
            \A pos \in 0..(Len(n.Content) \div 2) :
                \A pair \in UnknownPairs :
                    pair[1].Value \notin KnownOf(shape) =>
                        LET added == Substitute(RootNode, n,
                                        InsertPair(n, pos, pair[1], pair[2]))
                            ec == ValidateRun(added, <<>>)
                        IN  ~ec.panicked /\ ec.Errors = result

C8_Witness ==
    /\ FirstReturned
    /\ Len(result) >= 2
    /\ \A shape \in Shapes : MappingsOf(shape) # {}

\* the kind-mismatch errors of a field
MismatchErrors(field, node) ==
    {ValidationError(node.Line, KeyOf(field) \o " must be a mapping"),
     ValidationError(node.Line, KeyOf(field) \o " must be an array"),
     ValidationError(node.Line, KeyOf(field) \o " must be string"),
     ValidationError(node.Line, KeyOf(field) \o " must be int")}

\* C9 (a kind mismatch short-circuits the field): when a field that must
\* be a mapping holds a scalar, an alias or a sequence, validation of the
\* otherwise valid document returns, and returns at most the one
\* kind-mismatch error of the field.
C9_ShortCircuit ==
    calls = 1 =>
        \A field \in MappingFields : \A n \in MismatchNodes(field) :
            RootNode = MismatchRoot(field, n) =>
                /\ pc # "panicked"
                /\ Len(result) <= 1
                /\ Range(result) \subseteq MismatchErrors(field, n)

\* the errors of the documents of root, each validated alone, one after
\* the other
RECURSIVE DocsErrors(_)
DocsErrors(docs) ==
    IF docs = <<>> THEN <<>>
    ELSE validatePod(Head(docs), NewCollector(<<>>)).Errors
            \o DocsErrors(Tail(docs))

\* C10 (documents of the root): the first Validate() of a Validator
\* returns the errors of the documents under the root, in their order; for
\* a root of no document it returns the empty list and main reports the
\* file valid.
C10_Documents ==
    /\ FirstReturned =>
          /\ result = DocsErrors(RootNode.Content)
          /\ RootNode.Content = <<>> => result = <<>>
    /\ pc = "exited" /\ RootNode.Content = <<>> =>
          /\ output = <<"YAML file is valid">>
          /\ exitCode = 0

C10_Witness ==
    /\ pc = "exited"
    /\ RootNode = ZeroNode
    /\ returns = <<<<>>>>
    /\ output = <<"YAML file is valid">>

====
